---- MODULE Spec2Model ----
(***************************************************************************)
(* Model of the GRSee IoT compliance prototype:                            *)
(*   - rule_engine.py : _parse_timestamp, _is_after_hours, evaluate_event  *)
(*   - app.py         : the event / incident store, _insert_event_to_db,   *)
(*                      sync_incidents_from_events, on_message, the        *)
(*                      /dashboard and /violations requests                *)
(*   - models.py      : the columns of Event and Incident                  *)
(* Python values are tagged records, text is TLA+ strings handled with     *)
(* Len / SubSeq / \o, so strip, split and the ISO parser are computed.     *)
(***************************************************************************)
EXTENDS Integers, Sequences, FiniteSets, TLC

VARIABLES
    event,      \* the dict handed to evaluate_event
    clock,      \* the clock time the timestamp text was written from (or none)
    result,     \* what evaluate_event did with event: a verdict or a raise
    events,     \* table "events": committed rows, in rowid order
    devices,    \* table "devices": committed rows, in rowid order
    incidents,  \* table "incidents": committed rows, in rowid order
    pc,         \* per thread: position in its handler
    local,      \* per thread: the handler's local variables and its session
    dash_events,\* the list of event dicts handed to the dashboard functions
    threshold,  \* build_zone_rows' threshold, in tenths of a percent
    zone_rows,  \* what build_zone_rows did with dash_events and threshold
    stats       \* what compute_dashboard_stats did with dash_events

vars ==
    <<event, clock, result, events, devices, incidents, pc, local,
      dash_events, threshold, zone_rows, stats>>

(***************************************************************************)
(* Bounds of the model.                                                    *)
(***************************************************************************)
\* seconds sampled on each side of the two business-hour boundaries
Slack == 1
\* denied_attempts ranges over 0..MaxAttempts
MaxAttempts == 4
\* temperature ranges over 30.0 - TempSpan/10 .. 30.0 + TempSpan/10
TempSpan == 2
\* distinct event ids delivered to the store
MaxEvents == 2
\* events in the seed file
MaxSeed == 2
\* events of the first zone in a list handed to the dashboard functions
MaxZoneEvents == 10
\* events of the second zone in such a list
MaxOtherEvents == 3
\* length of the lists that mix zones and malformed events freely
MaxShort == 3
\* length of the lists that mix severities and timestamps freely
MaxAlertShort == 2
\* length of the lists of high and critical events with distinct days
MaxAlerts == 7

(***************************************************************************)
(* Python values.                                                          *)
(***************************************************************************)
PyStr(s) == [t |-> "str", s |-> s, n |-> 0]
PyInt(n) == [t |-> "int", s |-> "", n |-> n]
\* a float with one decimal, held in tenths: PyFloat(301) is 30.1
PyFloat(n) == [t |-> "float", s |-> "", n |-> n]
None == [t |-> "null", s |-> "", n |-> 0]
\* a key the dict does not hold
Absent == [t |-> "absent", s |-> "", n |-> 0]

\* bool(v)
Truthy(v) ==
    CASE v.t = "str" -> v.s # ""
      [] v.t \in {"int", "float"} -> v.n # 0
      [] OTHER -> FALSE

\* d.get(k)
Get(d, k) == IF d[k].t = "absent" THEN None ELSE d[k]

\* d.get(k, default)
GetD(d, k, default) == IF d[k].t = "absent" THEN default ELSE d[k]

\* a or b
PyOr(a, b) == IF Truthy(a) THEN a ELSE b

\* str(n) for an int
StrOfPyInt(n) == ToString(n)

\* str(x) for a float with one decimal: 301 -> "30.1", 300 -> "30.0"
StrOfPyFloat(n) == ToString(n \div 10) \o "." \o ToString(n % 10)

(***************************************************************************)
(* str methods.                                                            *)
(***************************************************************************)
IsSpace(c) == c \in {" ", "\t", "\n", "\r"}

RECURSIVE LStrip(_)
LStrip(s) ==
    IF Len(s) > 0 /\ IsSpace(SubSeq(s, 1, 1))
    THEN LStrip(SubSeq(s, 2, Len(s)))
    ELSE s

RECURSIVE RStrip(_)
RStrip(s) ==
    IF Len(s) > 0 /\ IsSpace(SubSeq(s, Len(s), Len(s)))
    THEN RStrip(SubSeq(s, 1, Len(s) - 1))
    ELSE s

\* s.strip()
Strip(s) == RStrip(LStrip(s))

\* sub in s
Contains(s, sub) ==
    \E i \in 1..(Len(s) + 1 - Len(sub)) : SubSeq(s, i, i + Len(sub) - 1) = sub

\* s.split(sep)[0] for a one-character sep
SplitHead(s, sep) ==
    IF Contains(s, sep)
    THEN LET i == CHOOSE j \in 1..Len(s) :
                      /\ SubSeq(s, j, j) = sep
                      /\ \A k \in 1..(j - 1) : SubSeq(s, k, k) # sep
         IN SubSeq(s, 1, i - 1)
    ELSE s

Digits == <<"0", "1", "2", "3", "4", "5", "6", "7", "8", "9">>

IsDigit(c) == \E d \in 1..10 : Digits[d] = c

DigitVal(c) == (CHOOSE d \in 1..10 : Digits[d] = c) - 1

AllDigits(s) == \A i \in 1..Len(s) : IsDigit(SubSeq(s, i, i))

RECURSIVE NumVal(_)
NumVal(s) ==
    IF Len(s) = 0 THEN 0
    ELSE 10 * NumVal(SubSeq(s, 1, Len(s) - 1)) + DigitVal(SubSeq(s, Len(s), Len(s)))

\* two digits, zero padded
Fmt2(n) == IF n < 10 THEN "0" \o ToString(n) ELSE ToString(n)

(***************************************************************************)
(* datetime.fromisoformat and datetime.time().                             *)
(***************************************************************************)
\* a parsed datetime's clock time; ok = FALSE stands for None / ValueError
NoTime == [ok |-> FALSE, h |-> 0, m |-> 0, s |-> 0, us |-> 0]

Time(h, m, s, us) == [ok |-> TRUE, h |-> h, m |-> m, s |-> s, us |-> us]

\* the time text of an ISO datetime, without its UTC offset
ParseTime(b) ==
    LET n == Len(b)
        two(i) == SubSeq(b, i, i + 1)
        hOk == n >= 2 /\ AllDigits(two(1)) /\ NumVal(two(1)) < 24
        mOk == n >= 5 /\ SubSeq(b, 3, 3) = ":" /\ AllDigits(two(4))
                      /\ NumVal(two(4)) < 60
        sOk == n >= 8 /\ SubSeq(b, 6, 6) = ":" /\ AllDigits(two(7))
                      /\ NumVal(two(7)) < 60
        frac == SubSeq(b, 10, n)
        fOk == n \in {12, 15} /\ SubSeq(b, 9, 9) = "." /\ AllDigits(frac)
    IN  CASE n = 2 /\ hOk -> Time(NumVal(two(1)), 0, 0, 0)
          [] n = 5 /\ hOk /\ mOk -> Time(NumVal(two(1)), NumVal(two(4)), 0, 0)
          [] n = 8 /\ hOk /\ mOk /\ sOk ->
                Time(NumVal(two(1)), NumVal(two(4)), NumVal(two(7)), 0)
          [] n \in {12, 15} /\ hOk /\ mOk /\ sOk /\ fOk ->
                Time(NumVal(two(1)), NumVal(two(4)), NumVal(two(7)),
                     IF n = 12 THEN 1000 * NumVal(frac) ELSE NumVal(frac))
          [] OTHER -> NoTime

\* datetime.fromisoformat(s).time(): date, one separator character, time,
\* optional [+-]HH:MM offset that time() drops; NoTime for a ValueError
fromisoformat(s) ==
    LET n == Len(s)
        dateOk == /\ n >= 10
                  /\ AllDigits(SubSeq(s, 1, 4)) /\ NumVal(SubSeq(s, 1, 4)) >= 1
                  /\ SubSeq(s, 5, 5) = "-"
                  /\ AllDigits(SubSeq(s, 6, 7))
                  /\ NumVal(SubSeq(s, 6, 7)) \in 1..12
                  /\ SubSeq(s, 8, 8) = "-"
                  /\ AllDigits(SubSeq(s, 9, 10))
                  /\ NumVal(SubSeq(s, 9, 10)) \in 1..31
        rest == SubSeq(s, 12, n)
        signs == {i \in 1..Len(rest) : SubSeq(rest, i, i) \in {"+", "-"}}
        tzAt == IF signs = {} THEN 0
                ELSE CHOOSE i \in signs : \A j \in signs : i <= j
        body == IF tzAt = 0 THEN rest ELSE SubSeq(rest, 1, tzAt - 1)
        tz == IF tzAt = 0 THEN "" ELSE SubSeq(rest, tzAt + 1, Len(rest))
        tzOk == \/ tzAt = 0
                \/ /\ Len(tz) = 5
                   /\ AllDigits(SubSeq(tz, 1, 2)) /\ NumVal(SubSeq(tz, 1, 2)) < 24
                   /\ SubSeq(tz, 3, 3) = ":"
                   /\ AllDigits(SubSeq(tz, 4, 5)) /\ NumVal(SubSeq(tz, 4, 5)) < 60
    IN  CASE ~dateOk -> NoTime
          [] dateOk /\ n = 10 -> Time(0, 0, 0, 0)
          [] dateOk /\ n = 11 -> NoTime
          [] dateOk /\ n > 11 /\ ~tzOk -> NoTime
          [] OTHER -> ParseTime(body)

(***************************************************************************)
(* rule_engine.py                                                          *)
(***************************************************************************)
start_hour == 8
end_hour == 18

\* _parse_timestamp(ts) for a str, None or falsy ts
_parse_timestamp(ts) ==
    IF ~Truthy(ts) THEN NoTime
    ELSE fromisoformat(SplitHead(SplitHead(ts.s, "+"), "Z"))

\* a < b on datetime.time values
TimeLess(a, b) ==
    \/ a.h < b.h
    \/ a.h = b.h /\ a.m < b.m
    \/ a.h = b.h /\ a.m = b.m /\ a.s < b.s
    \/ a.h = b.h /\ a.m = b.m /\ a.s = b.s /\ a.us < b.us

\* _is_after_hours with the end of the window exclusive: 18:00:00 is after-hours
_is_after_hours_EndExclusive(dt) ==
    IF ~dt.ok THEN FALSE
    ELSE LET start == Time(start_hour, 0, 0, 0)
             end == Time(end_hour, 0, 0, 0)
         IN  TimeLess(dt, start) \/ ~TimeLess(dt, end)

_is_after_hours(dt) ==
    IF ~dt.ok THEN FALSE
    ELSE LET start == Time(start_hour, 0, 0, 0)
             end == Time(end_hour, 0, 0, 0)
         IN  TimeLess(dt, start) \/ TimeLess(end, dt)

\* x.strip() / x.split() raises AttributeError on a value that is not a str
NotStr(v) == v.t # "str"

\* what evaluate_event hands back: a verdict dict, or an exception
Verdict(event_id, policy_result, compliance_mapping, incident) ==
    [status |-> "returned", exc |-> "",
     event_id |-> event_id,
     policy_result |-> policy_result,
     compliance_mapping |-> compliance_mapping,
     incident |-> incident]

DefaultPolicy ==
    [policy_id |-> None, policy_name |-> None, is_violation |-> FALSE,
     reason |-> "No policy violation detected"]

DefaultMapping == [iso27001_controls |-> <<>>, pcidss_requirements |-> <<>>]

DefaultIncident == [create_incident |-> FALSE, incident_type |-> None]

Raised(exc) ==
    [status |-> "raised", exc |-> exc,
     event_id |-> None,
     policy_result |-> DefaultPolicy,
     compliance_mapping |-> DefaultMapping,
     incident |-> DefaultIncident]

Policy(id, name, reason) ==
    [policy_id |-> PyStr(id), policy_name |-> PyStr(name), is_violation |-> TRUE,
     reason |-> reason]

Mapping(control_id, iso_title, requirement_id, pci_title) ==
    [iso27001_controls |-> <<[control_id |-> control_id, title |-> iso_title]>>,
     pcidss_requirements |->
         <<[requirement_id |-> requirement_id, title |-> pci_title]>>]

Incident(incident_type) ==
    [create_incident |-> TRUE, incident_type |-> PyStr(incident_type)]

SensitiveZones == {"CASH_VAULT", "SERVER_ROOM"}

\* Rule 1 matching "RFID_ACCESS" as a substring of the event type
Rule1Fires_PrefixMatch(e, event_type, zone, ts) == Contains(event_type, "RFID_ACCESS")

\* Rule 1: denied RFID access
Rule1Fires(e, event_type, zone, ts) == event_type = "RFID_ACCESS_DENIED"

\* Rule 1's reason written with the event's denied_attempts count
Rule1Reason_WithCount(e) ==
    IF e.denied_attempts.t = "int"
    THEN "RFID access was denied " \o StrOfPyInt(e.denied_attempts.n) \o " times"
    ELSE "RFID access was denied (possible unauthorized attempt)"

Rule1Reason(e) == "RFID access was denied (possible unauthorized attempt)"

Rule1Verdict(e, event_id) ==
    Verdict(event_id,
        Policy("POL-PA-001", "Unauthorized physical access attempt", Rule1Reason(e)),
        Mapping("A.11.1.2", "Physical entry controls",
            "Req. 9", "Restrict physical access to cardholder data"),
        Incident("UNAUTHORIZED_ACCESS_ATTEMPT"))

\* Rule 2: motion detected after-hours in sensitive zones
Rule2Fires(e, event_type, zone, ts) ==
    /\ event_type = "MOTION_DETECTED"
    /\ _is_after_hours(ts)
    /\ zone \in SensitiveZones

Rule2Verdict(zone, event_id) ==
    Verdict(event_id,
        Policy("POL-PA-002", "After-hours motion in restricted zone",
            "Motion detected after-hours in restricted zone (" \o zone \o ")"),
        Mapping("A.11.1.1", "Physical security perimeter",
            "Req. 9", "Restrict physical access to cardholder data"),
        Incident("SUSPICIOUS_AFTER_HOURS_ACTIVITY"))

\* Rule 3 firing only on a temperature reading above 30.0
Rule3Fires_AboveThreshold(e, event_type, zone, ts) ==
    /\ event_type = "TEMP_THRESHOLD_EXCEEDED"
    /\ zone = "SERVER_ROOM"
    /\ e.temperature.t = "float"
    /\ e.temperature.n > 30 * 10

\* Rule 3 without its test of the event type
Rule3Fires_AnyType(e, event_type, zone, ts) == zone = "SERVER_ROOM"

\* Rule 3: temperature exceeded in server room
Rule3Fires(e, event_type, zone, ts) ==
    event_type = "TEMP_THRESHOLD_EXCEEDED" /\ zone = "SERVER_ROOM"

Rule3Reason(e) == "Temperature exceeded threshold in server room"

Rule3Verdict(e, event_id) ==
    Verdict(event_id,
        Policy("POL-ENV-001", "Environmental threshold breach", Rule3Reason(e)),
        Mapping("A.11.2.2", "Supporting utilities",
            "Req. 9", "Protect systems from environmental threats"),
        Incident("ENVIRONMENTAL_RISK"))

\* Rule 4 scoped to the cash vault
Rule4Fires_CashVaultOnly(e, event_type, zone, ts) ==
    event_type = "CAMERA_TAMPER_DETECTED" /\ zone = "CASH_VAULT"

\* Rule 4: camera tamper detected
Rule4Fires(e, event_type, zone, ts) == event_type = "CAMERA_TAMPER_DETECTED"

Rule4Verdict(event_id) ==
    Verdict(event_id,
        Policy("POL-CCTV-001", "CCTV tamper detection",
            "Camera tamper detected (possible attempt to disable surveillance)"),
        Mapping("A.11.1.4", "Protecting against external and environmental threats",
            "Req. 9", "Use video cameras and protect them from tampering"),
        Incident("SURVEILLANCE_TAMPER"))

\* the default result created with a placeholder control already in it
DefaultVerdict_Placeholder(event_id) ==
    Verdict(event_id, DefaultPolicy,
        Mapping("A.11.1.2", "Physical entry controls",
            "Req. 9", "Restrict physical access to cardholder data"),
        DefaultIncident)

\* the result dict before any rule has rewritten it
DefaultVerdict(event_id) ==
    Verdict(event_id, DefaultPolicy, DefaultMapping, DefaultIncident)

\* does one of the four attribute calls at the top of evaluate_event raise
EvaluateRaises(e) ==
    \/ NotStr(PyOr(Get(e, "event_type"), PyStr("UNKNOWN")))
    \/ NotStr(PyOr(Get(e, "zone"), PyStr("UNKNOWN")))
    \/ NotStr(PyOr(Get(e, "severity"), PyStr("LOW")))
    \/ LET ts == GetD(e, "timestamp", PyStr("")) IN Truthy(ts) /\ NotStr(ts)

evaluate_event(e) ==
    IF EvaluateRaises(e) THEN Raised("AttributeError")
    ELSE
    LET event_type == Strip(PyOr(Get(e, "event_type"), PyStr("UNKNOWN")).s)
        zone == Strip(PyOr(Get(e, "zone"), PyStr("UNKNOWN")).s)
        ts == _parse_timestamp(GetD(e, "timestamp", PyStr("")))
        event_id == Get(e, "event_id")
    IN  IF Rule1Fires(e, event_type, zone, ts) THEN Rule1Verdict(e, event_id)
        ELSE IF Rule2Fires(e, event_type, zone, ts) THEN Rule2Verdict(zone, event_id)
        ELSE IF Rule3Fires(e, event_type, zone, ts) THEN Rule3Verdict(e, event_id)
        ELSE IF Rule4Fires(e, event_type, zone, ts) THEN Rule4Verdict(event_id)
        ELSE DefaultVerdict(event_id)

(***************************************************************************)
(* The events the evaluator is run on.                                     *)
(***************************************************************************)
\* seconds of the day sampled: around 08:00:00 and 18:00:00, midnight,
\* mid-morning and late evening
SampledSeconds ==
    {start_hour * 3600 + k : k \in (0 - Slack)..Slack}
        \cup {end_hour * 3600 + k : k \in (0 - Slack)..Slack}
        \cup {0, 10 * 3600 + 15 * 60, 22 * 3600 + 30 * 60}

ClockOf(sod, us) == Time(sod \div 3600, (sod % 3600) \div 60, sod % 60, us)

ClockText(c) == Fmt2(c.h) \o ":" \o Fmt2(c.m) \o ":" \o Fmt2(c.s)

\* the timestamp layouts: ISO "T", the publisher's "%Y-%m-%d %H:%M:%S",
\* with a UTC offset, with "Z", with a negative offset, with microseconds
TimestampForms == {"T", "space", "T+offset", "TZ", "T-offset", "T.us"}

FormatTimestamp(form, c) ==
    CASE form = "T" -> "2026-01-09T" \o ClockText(c)
      [] form = "space" -> "2026-01-09 " \o ClockText(c)
      [] form = "T+offset" -> "2026-01-09T" \o ClockText(c) \o "+08:00"
      [] form = "TZ" -> "2026-01-09T" \o ClockText(c) \o "Z"
      [] form = "T-offset" -> "2026-01-09T" \o ClockText(c) \o "-05:00"
      [] form = "T.us" -> "2026-01-09T" \o ClockText(c) \o ".000001"

\* a timestamp value with the clock time it was written from
TimestampSamples ==
    {[v |-> PyStr(FormatTimestamp(form, ClockOf(sod, 0))),
      clock |-> ClockOf(sod, IF form = "T.us" THEN 1 ELSE 0)] :
        form \in TimestampForms, sod \in SampledSeconds}
    \cup {[v |-> PyStr("2026-01-09"), clock |-> Time(0, 0, 0, 0)]}
    \cup {[v |-> x, clock |-> NoTime] :
            x \in {PyStr("not-a-time"), PyStr(""), PyStr(" 2026-01-09T18:00:01"),
                   None, Absent, PyInt(0), PyInt(5)}}

\* event_type with the payload field the publisher attaches to it
TypePayloads ==
    {[event_type |-> PyStr("RFID_ACCESS_DENIED"), denied_attempts |-> a,
      temperature |-> Absent] :
        a \in {Absent} \cup {PyInt(n) : n \in 0..MaxAttempts}}
    \cup {[event_type |-> PyStr("TEMP_THRESHOLD_EXCEEDED"), denied_attempts |-> Absent,
           temperature |-> x] :
        x \in {Absent} \cup {PyFloat(300 + d) : d \in (0 - TempSpan)..TempSpan}}
    \cup {[event_type |-> x, denied_attempts |-> Absent, temperature |-> Absent] :
        x \in {PyStr("RFID_ACCESS_GRANTED"), PyStr("MOTION_DETECTED"),
               PyStr(" MOTION_DETECTED "), PyStr("CAMERA_TAMPER_DETECTED"),
               PyStr("CAMERA_TAMPER_DETECTED\n"), PyStr("DOOR_FORCED"), PyStr(""),
               None, Absent, PyInt(0), PyInt(5)}}

ZoneValues ==
    {PyStr("CASH_VAULT"), PyStr("SERVER_ROOM"), PyStr(" SERVER_ROOM "), PyStr("LOBBY"),
     None, Absent, PyInt(5)}

SeverityValues == {PyStr("HIGH"), Absent, PyInt(2)}

MakeEvent(event_id, timestamp, tp, zone, severity) ==
    [event_id |-> event_id,
     timestamp |-> timestamp,
     device_type |-> PyStr("MQTT_SIM"),
     zone |-> zone,
     event_type |-> tp.event_type,
     severity |-> severity,
     summary |-> PyStr("summary"),
     denied_attempts |-> tp.denied_attempts,
     temperature |-> tp.temperature]

\* evaluate_event has not been called yet
NotEvaluated == [Raised("") EXCEPT !.status = "pending"]

(***************************************************************************)
(* models.py / app.py: the tables and the rows written to them.            *)
(***************************************************************************)
\* the MQTT subscriber thread and a Flask request thread
Threads == {"mqtt", "web"}

\* no message in hand
NoMessage ==
    MakeEvent(Absent, Absent,
        [event_type |-> Absent, denied_attempts |-> Absent, temperature |-> Absent],
        Absent, Absent)

\* a handler's locals before it starts: e, db_events, the loop index, created,
\* the session's new Incident objects (pending: added; flushed: INSERTed by an
\* autoflush, not yet committed), the rest of the seed file, and the session's
\* new Event and Device objects of a seed
IdleLocal ==
    [e |-> NoMessage, db_events |-> <<>>, i |-> 0, created |-> 0,
     pending |-> <<>>, flushed |-> <<>>,
     file |-> <<>>, new_event |-> <<>>, new_events |-> <<>>, new_devices |-> <<>>]

\* the columns of Event declared nullable=False that a message fills
EventNotNull == {"timestamp", "device_type", "zone", "event_type", "severity"}

\* Event(...) as _insert_event_to_db builds it, with the rowid it is given
EventRow(id, e) ==
    [id |-> id,
     event_id |-> Get(e, "event_id"),
     timestamp |-> GetD(e, "timestamp", PyStr("")),
     device_type |-> GetD(e, "device_type", PyStr("")),
     zone |-> GetD(e, "zone", PyStr("")),
     event_type |-> GetD(e, "event_type", PyStr("")),
     severity |-> GetD(e, "severity", PyStr("")),
     summary |-> GetD(e, "summary", PyStr(""))]

\* e_dict: the dict sync_incidents_from_events evaluates for a row
RowDict(ev) ==
    [event_id |-> ev.event_id,
     timestamp |-> ev.timestamp,
     device_type |-> ev.device_type,
     zone |-> ev.zone,
     event_type |-> ev.event_type,
     severity |-> ev.severity,
     summary |-> ev.summary,
     denied_attempts |-> Absent,
     temperature |-> Absent]

\* a value inside an f-string
FStr(v) ==
    CASE v.t = "str" -> v.s
      [] v.t = "null" -> "None"
      [] OTHER -> ToString(v.n)

device_key(e) ==
    FStr(GetD(e, "device_type", PyStr("UNKNOWN"))) \o "_"
        \o FStr(GetD(e, "zone", PyStr("UNKNOWN")))

\* the devices table after _upsert_device_for_event(e)
_upsert_device_for_event(devs, e) ==
    IF \E k \in 1..Len(devs) : devs[k].device_id = device_key(e)
    THEN [k \in 1..Len(devs) |->
             IF devs[k].device_id = device_key(e)
             THEN [devs[k] EXCEPT !.last_seen = Get(e, "timestamp")]
             ELSE devs[k]]
    ELSE Append(devs,
             [device_id |-> device_key(e),
              device_type |-> GetD(e, "device_type", PyStr("UNKNOWN")),
              zone |-> GetD(e, "zone", PyStr("UNKNOWN")),
              status |-> "active",
              last_seen |-> Get(e, "timestamp")])

\* a NOT NULL column of the new Event (or Device) row would hold None
NullColumn(e) == \E k \in EventNotNull : e[k].t = "null"

\* the query for a stored event looking at the newest event only
EventExists_NewestOnly(rows, eid) ==
    Len(rows) > 0 /\ rows[Len(rows)].event_id = eid

\* Event.query.filter_by(event_id=eid).first() finds a row
EventExists(rows, eid) == \E k \in 1..Len(rows) : rows[k].event_id = eid

\* the query for an existing incident looking at the newest incident only
IncidentExists_NewestOnly(rows, id) ==
    Len(rows) > 0 /\ rows[Len(rows)].event_id_fk = id

\* Incident.query.filter_by(event_id_fk=id).first() finds a row
IncidentExists(rows, id) == \E k \in 1..Len(rows) : rows[k].event_id_fk = id

\* an Incident whose type is always the fallback
IncidentRow_Unspecified(proc, ev) ==
    [incident_type |-> "UNSPECIFIED", status |-> "open", event_id_fk |-> ev.id]

\* Incident(...) as sync_incidents_from_events builds it
IncidentRow(proc, ev) ==
    [incident_type |-> PyOr(proc.incident.incident_type, PyStr("UNSPECIFIED")).s,
     status |-> "open",
     event_id_fk |-> ev.id]

\* the test that guards the creation of an incident
WantsIncident(proc) ==
    proc.policy_result.is_violation /\ proc.incident.create_incident

\* SQLite's write lock: a session that has flushed INSERTs holds it until it
\* commits or rolls back; it is free for th when no other thread holds it
HoldsLock(th) ==
    \/ local[th].flushed # <<>>
    \/ local[th].new_events # <<>>
    \/ local[th].new_devices # <<>>

LockFreeFor(th) == \A o \in Threads \ {th} : ~HoldsLock(o)

\* the messages delivered: per event id a granted access (in the morning) and
\* a camera tamper (at night) in the lobby, a denied access whose zone is null,
\* and events without an event_id
EventIds == {"evt_" \o ToString(k) : k \in 1..MaxEvents}

StoreMessages ==
    {MakeEvent(PyStr(id),
               IF ty = "RFID_ACCESS_GRANTED" THEN PyStr("2026-01-09T10:15:00")
               ELSE PyStr("2026-01-09T22:30:00"),
               [event_type |-> PyStr(ty), denied_attempts |-> Absent,
                temperature |-> Absent],
               zone, PyStr("HIGH")) :
        id \in EventIds,
        ty \in {"RFID_ACCESS_GRANTED", "CAMERA_TAMPER_DETECTED"},
        zone \in {PyStr("LOBBY")}}
    \cup {MakeEvent(PyStr(id), PyStr("2026-01-09T22:30:00"),
               [event_type |-> PyStr("RFID_ACCESS_DENIED"), denied_attempts |-> Absent,
                temperature |-> Absent],
               None, PyStr("HIGH")) : id \in {"evt_1"}}
    \cup {MakeEvent(eid, PyStr("2026-01-09T22:30:00"),
               [event_type |-> PyStr("RFID_ACCESS_DENIED"), denied_attempts |-> Absent,
                temperature |-> Absent],
               PyStr("LOBBY"), PyStr("HIGH")) : eid \in {Absent, PyStr("")}}

\* what data/mock_events.json may hold: up to MaxSeed events, each a camera
\* tamper with one of the event ids, a denied access whose zone is null, or an
\* event without event_id
SeedMessages ==
    {m \in StoreMessages :
        \/ m.event_type = PyStr("CAMERA_TAMPER_DETECTED")
        \/ m.zone = None
        \/ m.event_id = Absent}

RECURSIVE SeqsUpTo(_, _)
SeqsUpTo(S, n) ==
    IF n = 0 THEN {<<>>}
    ELSE LET shorter == SeqsUpTo(S, n - 1)
         IN  shorter \cup {Append(s, x) : s \in shorter, x \in S}

SeedFiles == SeqsUpTo(SeedMessages, MaxSeed)

\* the tables after db.create_all(), every thread idle
StoreInit ==
    /\ events = <<>>
    /\ devices = <<>>
    /\ incidents = <<>>
    /\ pc = [th \in Threads |-> "idle"]
    /\ local = [th \in Threads |-> IdleLocal]

(***************************************************************************)
(* app.py: the dashboard aggregations.  Percentages are kept in tenths     *)
(* (90.0 is 900), which is all round(x, 1) can return.                     *)
(***************************************************************************)
\* THRESHOLD = 90.0
THRESHOLD == 900

\* the division is evaluated whatever the total
Divides_Always(total) == TRUE

\* "... if total > 0 else 0.0": the division is evaluated only then
Divides(total) == total > 0

\* round((part / total) * 100, 1) in tenths, 0.0 when total is 0; a tie goes
\* to the even tenth (no tie arises for total < 16)
RoundPercent(part, total) ==
    IF Divides(total)
    THEN LET q == (1000 * part) \div total
             r == (1000 * part) % total
         IN  IF 2 * r < total THEN q
             ELSE IF 2 * r > total THEN q + 1
             ELSE IF q % 2 = 0 THEN q ELSE q + 1
    ELSE 0

\* zone_breakdown after the first n events: the zones in order of first
\* appearance, each with its counts; "raised" once evaluate_event has raised
RECURSIVE ZoneBreakdown(_, _)
ZoneBreakdown(evs, n) ==
    IF n = 0 THEN [status |-> "returned", rows |-> <<>>]
    ELSE LET before == ZoneBreakdown(evs, n - 1)
             e == evs[n]
             zone == GetD(e, "zone", PyStr("UNKNOWN"))
             proc == evaluate_event(e)
             v == IF proc.policy_result.is_violation THEN 1 ELSE 0
             known == \E k \in 1..Len(before.rows) : before.rows[k].zone = zone
         IN  IF before.status = "raised" \/ proc.status = "raised"
             THEN [status |-> "raised", rows |-> <<>>]
             ELSE [status |-> "returned",
                   rows |->
                     IF known
                     THEN [k \in 1..Len(before.rows) |->
                             IF before.rows[k].zone = zone
                             THEN [before.rows[k] EXCEPT !.total = @ + 1,
                                                         !.violations = @ + v]
                             ELSE before.rows[k]]
                     ELSE Append(before.rows,
                                 [zone |-> zone, total |-> 1, violations |-> v])]

\* the row build_zone_rows appends for a zone
ZoneRow(counts, thr) ==
    LET compliance_percent ==
            RoundPercent(counts.total - counts.violations, counts.total)
    IN  [zone |-> counts.zone,
         total |-> counts.total,
         violations |-> counts.violations,
         compliance_percent |-> compliance_percent,
         status |-> IF compliance_percent < thr THEN "NEEDS_ATTENTION"
                    ELSE "WITHIN_THRESHOLD"]

\* zone_rows returned in the order they were appended
SortedByCompliance_Unsorted(rows) == rows

\* sorted(zone_rows, key=lambda r: r["compliance_percent"]): stable, ascending
RECURSIVE SortedByCompliance(_)
SortedByCompliance(rows) ==
    IF rows = <<>> THEN <<>>
    ELSE LET n == Len(rows)
             front == SortedByCompliance(SubSeq(rows, 1, n - 1))
             last == rows[n]
             keep == {k \in 1..Len(front) :
                         front[k].compliance_percent <= last.compliance_percent}
         IN  SubSeq(front, 1, Cardinality(keep)) \o <<last>>
                 \o SubSeq(front, Cardinality(keep) + 1, Len(front))

build_zone_rows(evs, thr) ==
    LET zone_breakdown == ZoneBreakdown(evs, Len(evs))
    IN  IF zone_breakdown.status = "raised" THEN zone_breakdown
        ELSE [status |-> "returned",
              rows |-> SortedByCompliance(
                          [k \in 1..Len(zone_breakdown.rows) |->
                              ZoneRow(zone_breakdown.rows[k], thr)])]

\* characters in the order of their code points
AsciiOrder == " +-.0123456789:ABCDEFGHIJKLMNOPQRSTUVWXYZ_abcdefghijklmnopqrstuvwxyz"

Ord(c) == CHOOSE i \in 1..Len(AsciiOrder) : SubSeq(AsciiOrder, i, i) = c

\* a < b for two str
RECURSIVE StrLess(_, _)
StrLess(a, b) ==
    IF b = "" THEN FALSE
    ELSE IF a = "" THEN TRUE
    ELSE IF SubSeq(a, 1, 1) = SubSeq(b, 1, 1)
         THEN StrLess(SubSeq(a, 2, Len(a)), SubSeq(b, 2, Len(b)))
         ELSE Ord(SubSeq(a, 1, 1)) < Ord(SubSeq(b, 1, 1))

\* s.lower()
RECURSIVE Lower(_)
Lower(s) ==
    IF s = "" THEN ""
    ELSE LET c == SubSeq(s, 1, 1)
             o == Ord(c)
         IN  (IF o >= Ord("A") /\ o <= Ord("Z")
              THEN SubSeq(AsciiOrder, o + Ord("a") - Ord("A"), o + Ord("a") - Ord("A"))
              ELSE c) \o Lower(SubSeq(s, 2, Len(s)))

\* sev = (e.get("severity") or "").strip().lower(): AttributeError when the
\* severity is a non-empty value that is not text
BucketRaises(e) == Truthy(Get(e, "severity")) /\ Get(e, "severity").t # "str"

BucketOf(e) == Lower(Strip(PyOr(Get(e, "severity"), PyStr("")).s))

SeverityBuckets == {"low", "medium", "high", "critical"}

\* severity_counts after the loop
severity_counts(evs) ==
    [b \in SeverityBuckets |->
        Cardinality({k \in 1..Len(evs) : BucketOf(evs[k]) = b})]

\* a dict of counts keyed by e.get(field, "UNKNOWN"), in insertion order
RECURSIVE CountsBy(_, _, _)
CountsBy(evs, n, field) ==
    IF n = 0 THEN <<>>
    ELSE LET before == CountsBy(evs, n - 1, field)
             key == GetD(evs[n], field, PyStr("UNKNOWN"))
         IN  IF \E k \in 1..Len(before) : before[k].key = key
             THEN [k \in 1..Len(before) |->
                     IF before[k].key = key
                     THEN [before[k] EXCEPT !.count = @ + 1]
                     ELSE before[k]]
             ELSE Append(before, [key |-> key, count |-> 1])

\* e.get("severity", "").lower(): AttributeError when the severity is there
\* and is not text, null included
AlertRaises(e) == GetD(e, "severity", PyStr("")).t # "str"

\* the filter that counts padded severities too
IsAlert_Stripped(e) == BucketOf(e) \in {"high", "critical"}

\* e.get("severity", "").lower() in ["high", "critical"]
IsAlert(e) == Lower(GetD(e, "severity", PyStr("")).s) \in {"high", "critical"}

\* the key recent alerts are sorted by
AlertKey(e) == GetD(e, "timestamp", PyStr(""))

\* sorting raises TypeError: two or more keys, not all of them text
SortRaises(alerts) ==
    /\ Len(alerts) >= 2
    /\ \E k \in 1..Len(alerts) : AlertKey(alerts[k]).t # "str"

\* sorted(alerts, key=timestamp, reverse=True): stable, descending
RECURSIVE SortedNewestFirst(_)
SortedNewestFirst(alerts) ==
    IF alerts = <<>> THEN <<>>
    ELSE LET n == Len(alerts)
             front == SortedNewestFirst(SubSeq(alerts, 1, n - 1))
             last == alerts[n]
             keep == {k \in 1..Len(front) :
                         ~StrLess(AlertKey(front[k]).s, AlertKey(last).s)}
         IN  SubSeq(front, 1, Cardinality(keep)) \o <<last>>
                 \o SubSeq(front, Cardinality(keep) + 1, Len(front))

\* [:5]
FirstFive(s) == SubSeq(s, 1, IF Len(s) < 5 THEN Len(s) ELSE 5)

StatsRaised(exc) == [status |-> "raised", exc |-> exc]

compute_dashboard_stats(evs) ==
    LET total == Len(evs)
        all == 1..Len(evs)
        high_alerts == SelectSeq(evs, IsAlert)
        violating == {k \in all : evaluate_event(evs[k]).policy_result.is_violation}
        violations_count == Cardinality(violating)
        compliant_count == total - violations_count
    IN  IF \E k \in all : BucketRaises(evs[k]) THEN StatsRaised("AttributeError")
        ELSE IF \E k \in all : AlertRaises(evs[k]) THEN StatsRaised("AttributeError")
        ELSE IF SortRaises(high_alerts) THEN StatsRaised("TypeError")
        ELSE IF \E k \in all : evaluate_event(evs[k]).status = "raised"
             THEN StatsRaised("AttributeError")
        ELSE IF Divides(total) /\ total = 0 THEN StatsRaised("ZeroDivisionError")
        ELSE [status |-> "returned",
              exc |-> "",
              total |-> total,
              severity_counts |-> severity_counts(evs),
              event_type_counts |-> CountsBy(evs, Len(evs), "event_type"),
              zone_counts |-> CountsBy(evs, Len(evs), "zone"),
              recent_alerts |-> FirstFive(SortedNewestFirst(high_alerts)),
              violations_count |-> violations_count,
              compliant_count |-> compliant_count,
              compliance_percent |-> RoundPercent(compliant_count, total),
              violation_percent |-> RoundPercent(violations_count, total)]

\* an event of the dashboard's input
DashEvent(zone, event_type, severity, timestamp) ==
    MakeEvent(PyStr("evt_001"), timestamp,
              [event_type |-> event_type, denied_attempts |-> Absent,
               temperature |-> Absent],
              zone, severity)

\* total events of a zone, the first `violations` of them camera tampers, the
\* rest granted accesses
ZoneBlock(zone, total, violations) ==
    [k \in 1..total |->
        DashEvent(PyStr(zone),
                  IF k <= violations THEN PyStr("CAMERA_TAMPER_DETECTED")
                  ELSE PyStr("RFID_ACCESS_GRANTED"),
                  PyStr("low"), PyStr("2026-01-09T10:15:00"))]

\* lists of one zone's events followed by another's
BlockInputs ==
    {ZoneBlock("LOBBY", tv1[1], tv1[2]) \o ZoneBlock("SERVER_ROOM", tv2[1], tv2[2]) :
        tv1 \in {tv \in (0..MaxZoneEvents) \X (0..MaxZoneEvents) : tv[2] <= tv[1]},
        tv2 \in {tv \in (0..MaxOtherEvents) \X (0..MaxOtherEvents) : tv[2] <= tv[1]}}

\* events that mix zones (one of them null, missing or the literal UNKNOWN)
\* and an event_type that is not text
ShortEvents ==
    {DashEvent(PyStr("LOBBY"), PyStr(ty), PyStr("low"), PyStr("2026-01-09T10:15:00")) :
        ty \in {"CAMERA_TAMPER_DETECTED", "RFID_ACCESS_GRANTED"}}
    \cup {DashEvent(zone, PyStr("CAMERA_TAMPER_DETECTED"), PyStr("low"),
                    PyStr("2026-01-09T10:15:00")) :
            zone \in {None, Absent}}
    \cup {DashEvent(PyStr("UNKNOWN"), PyStr("RFID_ACCESS_GRANTED"), PyStr("low"),
                    PyStr("2026-01-09T10:15:00")),
          DashEvent(PyStr("LOBBY"), PyInt(5), PyStr("low"),
                    PyStr("2026-01-09T10:15:00"))}

ShortInputs == SeqsUpTo(ShortEvents, MaxShort)

\* events that mix severities (upper and lower case, padded, unknown, null,
\* missing, zero) and timestamps (two layouts, null)
AlertEvents ==
    {DashEvent(PyStr("LOBBY"), PyStr("CAMERA_TAMPER_DETECTED"), severity, PyStr(ts)) :
        severity \in {PyStr("HIGH"), PyStr("Critical"), PyStr(" high "), PyStr("low"),
                      None},
        ts \in {"2026-01-09T10:15:00", "2026-01-09 22:30:00"}}
    \cup {DashEvent(PyStr("LOBBY"), PyStr("RFID_ACCESS_GRANTED"), severity,
                    PyStr("2026-01-09T10:15:00")) :
            severity \in {Absent, PyInt(0), PyInt(2), PyStr("urgent")}}
    \cup {DashEvent(PyStr("LOBBY"), PyStr("RFID_ACCESS_GRANTED"), PyStr("high"), ts) :
            ts \in {None, Absent}}

AlertInputs == SeqsUpTo(AlertEvents, MaxAlertShort)

\* n camera tampers, high or critical, each of its own day, the days in an
\* order set by step; every second one low instead when mixed
AlertRun(n, step, mixed) ==
    [k \in 1..n |->
        DashEvent(PyStr("LOBBY"), PyStr("CAMERA_TAMPER_DETECTED"),
                  IF mixed /\ k % 2 = 0 THEN PyStr("low")
                  ELSE IF k % 3 = 0 THEN PyStr("critical") ELSE PyStr("HIGH"),
                  PyStr("2026-01-" \o Fmt2(((k * step) % (MaxAlerts + 1)) + 1)
                            \o "T10:15:00"))]

AlertRuns ==
    {AlertRun(n, step, mixed) :
        n \in 0..MaxAlerts, step \in {1, 3, MaxAlerts}, mixed \in BOOLEAN}

Thresholds == {THRESHOLD, 500, 1000}

\* a dashboard function has not been called
NotCalled == [status |-> "pending"]

DashInit ==
    /\ dash_events = <<>>
    /\ threshold = THRESHOLD
    /\ zone_rows = NotCalled
    /\ stats = NotCalled

DashIdle == UNCHANGED <<dash_events, threshold, zone_rows, stats>>

(***************************************************************************)
(* SpecEval: evaluate_event applied to one event drawn from the samples.   *)
(***************************************************************************)
InitEval ==
    /\ \E smp \in TimestampSamples, tp \in TypePayloads,
          zone \in ZoneValues, severity \in SeverityValues :
            /\ event = MakeEvent(PyStr("evt_001"), smp.v, tp, zone, severity)
            /\ clock = smp.clock
    /\ result = NotEvaluated
    /\ StoreInit
    /\ DashInit

EvaluateEvent ==
    /\ result.status = "pending"
    /\ result' = evaluate_event(event)
    /\ UNCHANGED <<events, devices, incidents, pc, local>>
    /\ UNCHANGED <<event, clock>>
    /\ DashIdle

NextEval == EvaluateEvent

SpecEval == InitEval /\ [][NextEval]_vars

(***************************************************************************)
(* app.py: the handlers, one action per step that reads or writes the      *)
(* database.                                                               *)
(***************************************************************************)
EvalIdle == UNCHANGED <<event, clock, result>> /\ DashIdle

\* on_message: msg.payload decoded to the dict e; _insert_event_to_db(e) called
OnMessage(e) ==
    /\ pc["mqtt"] = "idle"
    /\ pc' = [pc EXCEPT !["mqtt"] = "insert_check"]
    /\ local' = [local EXCEPT !["mqtt"] = [IdleLocal EXCEPT !.e = e]]
    /\ UNCHANGED <<events, devices, incidents>>
    /\ EvalIdle

\* _insert_event_to_db up to its query for a stored event of the same event_id
InsertCheck ==
    /\ pc["mqtt"] = "insert_check"
    /\ LET eid == Get(local["mqtt"].e, "event_id")
       IN  IF ~Truthy(eid) \/ EventExists(events, eid)
           THEN \* returns False
                /\ pc' = [pc EXCEPT !["mqtt"] = "insert_ret"]
                /\ local' = local
           ELSE /\ pc' = [pc EXCEPT !["mqtt"] = "insert_write"]
                /\ local' = local
    /\ UNCHANGED <<events, devices, incidents>>
    /\ EvalIdle

\* _insert_event_to_db has returned False: on_message prints
\* "Duplicate/invalid event ignored" and ends
InsertReturn ==
    /\ pc["mqtt"] = "insert_ret"
    /\ pc' = [pc EXCEPT !["mqtt"] = "idle"]
    /\ local' = [local EXCEPT !["mqtt"] = IdleLocal]
    /\ UNCHANGED <<events, devices, incidents>>
    /\ EvalIdle

\* _insert_event_to_db from _upsert_device_for_event to db.session.commit()
InsertWrite ==
    /\ pc["mqtt"] = "insert_write"
    /\ LockFreeFor("mqtt")
    /\ LET e == local["mqtt"].e
       IN  IF NullColumn(e) \/ EventExists(events, Get(e, "event_id"))
           THEN \* IntegrityError, caught by on_message; nothing is committed
                /\ pc' = [pc EXCEPT !["mqtt"] = "idle"]
                /\ local' = [local EXCEPT !["mqtt"] = IdleLocal]
                /\ UNCHANGED <<events, devices>>
           ELSE /\ devices' = _upsert_device_for_event(devices, e)
                /\ events' = Append(events, EventRow(Len(events) + 1, e))
                /\ pc' = [pc EXCEPT !["mqtt"] = "sync_first"]
                /\ local' = local
    /\ UNCHANGED incidents
    /\ EvalIdle

\* /dashboard or /violations: the request calls sync_incidents_from_events
Request ==
    /\ pc["web"] = "idle"
    /\ pc' = [pc EXCEPT !["web"] = "sync_first"]
    /\ local' = [local EXCEPT !["web"] = IdleLocal]
    /\ UNCHANGED <<events, devices, incidents>>
    /\ EvalIdle

\* sync_incidents_from_events: first = Event.query.first()
SyncFirst(th) ==
    /\ pc[th] = "sync_first"
    /\ IF events = <<>>
       THEN pc' = [pc EXCEPT ![th] = "sync_ret"]
       ELSE pc' = [pc EXCEPT ![th] = "sync_all"]
    /\ local' = [local EXCEPT ![th].created = 0]
    /\ UNCHANGED <<events, devices, incidents>>
    /\ EvalIdle

\* created = 0; db_events = Event.query.all()
SyncAll(th) ==
    /\ pc[th] = "sync_all"
    /\ pc' = [pc EXCEPT ![th] = "sync_loop"]
    /\ local' = [local EXCEPT ![th].db_events = events, ![th].i = 1,
                              ![th].created = 0]
    /\ UNCHANGED <<events, devices, incidents>>
    /\ EvalIdle

\* one pass of the loop over db_events: the query for an existing incident
\* (which first flushes the session's new incidents), evaluate_event, add
SyncLoop(th) ==
    /\ pc[th] = "sync_loop"
    /\ local[th].i <= Len(local[th].db_events)
    /\ local[th].pending # <<>> => LockFreeFor(th)
    /\ LET L == local[th]
           ev == L.db_events[L.i]
           flushed == L.flushed \o L.pending
           existing == IncidentExists(incidents \o flushed, ev.id)
           proc == evaluate_event(RowDict(ev))
       IN  IF existing
           THEN /\ local' = [local EXCEPT ![th].flushed = flushed,
                                          ![th].pending = <<>>,
                                          ![th].i = L.i + 1]
                /\ pc' = pc
           ELSE IF proc.status = "raised"
           THEN /\ local' = [local EXCEPT ![th] = IdleLocal]
                /\ pc' = [pc EXCEPT ![th] = "idle"]
           ELSE IF WantsIncident(proc)
           THEN /\ local' = [local EXCEPT ![th].flushed = flushed,
                                          ![th].pending = <<IncidentRow(proc, ev)>>,
                                          ![th].created = L.created + 1,
                                          ![th].i = L.i + 1]
                /\ pc' = pc
           ELSE /\ local' = [local EXCEPT ![th].flushed = flushed,
                                          ![th].pending = <<>>,
                                          ![th].i = L.i + 1]
                /\ pc' = pc
    /\ UNCHANGED <<events, devices, incidents>>
    /\ EvalIdle

\* after the loop: if created > 0: db.session.commit(); return created
SyncCommit(th) ==
    /\ pc[th] = "sync_loop"
    /\ local[th].i > Len(local[th].db_events)
    /\ IF local[th].created > 0
       THEN /\ LockFreeFor(th)
            /\ incidents' = incidents \o local[th].flushed \o local[th].pending
       ELSE incidents' = incidents
    /\ pc' = [pc EXCEPT ![th] = "sync_ret"]
    /\ local' = [local EXCEPT ![th].flushed = <<>>, ![th].pending = <<>>]
    /\ UNCHANGED <<events, devices>>
    /\ EvalIdle

\* sync_incidents_from_events has returned local[th].created; the rest of the
\* handler (a print, or read-only queries and a template) changes nothing
SyncReturn(th) ==
    /\ pc[th] = "sync_ret"
    /\ pc' = [pc EXCEPT ![th] = "idle"]
    /\ local' = [local EXCEPT ![th] = IdleLocal]
    /\ UNCHANGED <<events, devices, incidents>>
    /\ EvalIdle

\* /admin/seed: events = load_events_json()
Seed(file) ==
    /\ pc["web"] = "idle"
    /\ pc' = [pc EXCEPT !["web"] = "seed_check"]
    /\ local' = [local EXCEPT !["web"] = [IdleLocal EXCEPT !.file = file]]
    /\ UNCHANGED <<events, devices, incidents>>
    /\ EvalIdle

\* the session's tables as th sees them: committed rows and its own INSERTs
SeenEvents(th) == events \o local[th].new_events

SeenDevices(th) == devices \o local[th].new_devices

\* the INSERT of the Event th's session holds: it violates a constraint
FlushFails(th) ==
    /\ local[th].new_event # <<>>
    /\ \/ NullColumn(local[th].new_event[1])
       \/ EventExists(SeenEvents(th), Get(local[th].new_event[1], "event_id"))

\* th's new_events after the INSERT of the Event its session holds
Flushed(th) ==
    IF local[th].new_event = <<>> THEN local[th].new_events
    ELSE Append(local[th].new_events,
                EventRow(Len(SeenEvents(th)) + 1, local[th].new_event[1]))

\* the handler ends with an exception: the session is rolled back
Abort(th) ==
    /\ pc' = [pc EXCEPT ![th] = "idle"]
    /\ local' = [local EXCEPT ![th] = IdleLocal]

\* seed_db_from_json, top of the loop: eid = e.get("event_id"), then the query
\* for a stored event of that id, which first flushes the Event added last
SeedCheck ==
    /\ pc["web"] = "seed_check"
    /\ local["web"].file # <<>>
    /\ LET L == local["web"]
           eid == Get(Head(L.file), "event_id")
       IN  IF ~Truthy(eid)
           THEN /\ local' = [local EXCEPT !["web"].file = Tail(L.file)]
                /\ pc' = pc
           ELSE /\ L.new_event # <<>> => LockFreeFor("web")
                /\ IF FlushFails("web")
                   THEN Abort("web")
                   ELSE IF EventExists(Flushed("web"), eid) \/ EventExists(events, eid)
                   THEN /\ local' = [local EXCEPT !["web"].new_events = Flushed("web"),
                                                  !["web"].new_event = <<>>,
                                                  !["web"].file = Tail(L.file)]
                        /\ pc' = pc
                   ELSE /\ local' = [local EXCEPT !["web"].new_events = Flushed("web"),
                                                  !["web"].new_event = <<>>]
                        /\ pc' = [pc EXCEPT !["web"] = "seed_add"]
    /\ UNCHANGED <<events, devices, incidents>>
    /\ EvalIdle

\* the loop's body from the device query to db.session.add(ev)
SeedAdd ==
    /\ pc["web"] = "seed_add"
    /\ LET L == local["web"]
           e == Head(L.file)
           known == \E k \in 1..Len(SeenDevices("web")) :
                        SeenDevices("web")[k].device_id = device_key(e)
       IN  IF known
           THEN /\ local' = [local EXCEPT !["web"].new_event = <<e>>,
                                          !["web"].file = Tail(L.file)]
                /\ pc' = [pc EXCEPT !["web"] = "seed_check"]
           ELSE /\ LockFreeFor("web")
                /\ IF e.device_type.t = "null" \/ e.zone.t = "null"
                   THEN Abort("web")
                   ELSE /\ local' =
                              [local EXCEPT
                                  !["web"].new_devices =
                                      SubSeq(_upsert_device_for_event(SeenDevices("web"), e),
                                             Len(devices) + 1, Len(SeenDevices("web")) + 1),
                                  !["web"].new_event = <<e>>,
                                  !["web"].file = Tail(L.file)]
                        /\ pc' = [pc EXCEPT !["web"] = "seed_check"]
    /\ UNCHANGED <<events, devices, incidents>>
    /\ EvalIdle

\* after the loop: db.session.commit()
SeedCommit ==
    /\ pc["web"] = "seed_check"
    /\ local["web"].file = <<>>
    /\ HoldsLock("web") \/ local["web"].new_event # <<>> => LockFreeFor("web")
    /\ IF FlushFails("web")
       THEN Abort("web") /\ UNCHANGED <<events, devices>>
       ELSE /\ events' = events \o Flushed("web")
            /\ devices' = SeenDevices("web")
            /\ pc' = [pc EXCEPT !["web"] = "idle"]
            /\ local' = [local EXCEPT !["web"] = IdleLocal]
    /\ UNCHANGED incidents
    /\ EvalIdle

\* th is about to write
NeedsLock(th) ==
    \/ pc[th] = "insert_write"
    \/ /\ pc[th] = "sync_loop"
       /\ \/ local[th].i <= Len(local[th].db_events) /\ local[th].pending # <<>>
          \/ local[th].i > Len(local[th].db_events) /\ local[th].created > 0
    \/ /\ pc[th] = "seed_check"
       /\ local[th].new_event # <<>>
       /\ local[th].file # <<>> => Truthy(Get(Head(local[th].file), "event_id"))
    \/ /\ pc[th] = "seed_add"
       /\ \A k \in 1..Len(SeenDevices(th)) :
              SeenDevices(th)[k].device_id # device_key(Head(local[th].file))

\* the write waited for another session's lock longer than SQLite's busy
\* timeout: OperationalError "database is locked"
LockTimeout(th) ==
    /\ NeedsLock(th)
    /\ ~LockFreeFor(th)
    /\ Abort(th)
    /\ UNCHANGED <<events, devices, incidents>>
    /\ EvalIdle

InitStore ==
    /\ event = NoMessage
    /\ clock = NoTime
    /\ result = NotEvaluated
    /\ StoreInit
    /\ DashInit

AllIdle == \A th \in Threads : pc[th] = "idle"

Step(th) == SyncFirst(th) \/ SyncAll(th) \/ SyncLoop(th) \/ SyncCommit(th) \/ SyncReturn(th)

SeedStep == SeedCheck \/ SeedAdd \/ SeedCommit

(***************************************************************************)
(* SpecSeq: the handlers run one at a time (a handler starts only when     *)
(* every thread is idle).                                                  *)
(***************************************************************************)
SeqOnMessage == AllIdle /\ \E e \in StoreMessages : OnMessage(e)

SeqRequest == AllIdle /\ Request

SeqSeed == AllIdle /\ \E file \in SeedFiles : Seed(file)

NextSeq ==
    \/ SeqOnMessage
    \/ SeqRequest
    \/ SeqSeed
    \/ SeedStep
    \/ InsertCheck
    \/ InsertReturn
    \/ InsertWrite
    \/ \E th \in Threads : Step(th)

SpecSeq == InitStore /\ [][NextSeq]_vars

(***************************************************************************)
(* SpecConc: the MQTT thread and a request thread interleave at every      *)
(* database access.                                                        *)
(***************************************************************************)
ConcOnMessage == \E e \in StoreMessages : OnMessage(e)

ConcSeed == \E file \in SeedFiles : Seed(file)

NextConc ==
    \/ ConcOnMessage
    \/ Request
    \/ ConcSeed
    \/ SeedStep
    \/ \E th \in Threads : LockTimeout(th)
    \/ InsertCheck
    \/ InsertReturn
    \/ InsertWrite
    \/ \E th \in Threads : Step(th)

SpecConc == InitStore /\ [][NextConc]_vars

(***************************************************************************)
(* SpecLive: SpecConc with each thread scheduled again and again.  A       *)
(* handler that has started takes its next step or, where it waits for the *)
(* write lock, either gets it or runs into SQLite's busy timeout.          *)
(***************************************************************************)
MqttStep ==
    \/ InsertCheck
    \/ InsertReturn
    \/ InsertWrite
    \/ Step("mqtt")
    \/ LockTimeout("mqtt")

WebStep == Step("web") \/ SeedStep \/ LockTimeout("web")

SpecLive == SpecConc /\ WF_vars(MqttStep) /\ WF_vars(WebStep)

(***************************************************************************)
(* SpecDash: the dashboard functions applied to one list of events drawn   *)
(* from the inputs.                                                        *)
(***************************************************************************)
InitDash ==
    /\ \/ /\ dash_events \in BlockInputs \cup ShortInputs
          /\ threshold \in Thresholds
       \/ /\ dash_events \in AlertInputs \cup AlertRuns
          /\ threshold = THRESHOLD
    /\ zone_rows = NotCalled
    /\ stats = NotCalled
    /\ event = NoMessage
    /\ clock = NoTime
    /\ result = NotEvaluated
    /\ StoreInit

BuildZoneRows ==
    /\ zone_rows.status = "pending"
    /\ zone_rows' = build_zone_rows(dash_events, threshold)
    /\ UNCHANGED <<dash_events, threshold, stats>>
    /\ UNCHANGED <<event, clock, result, events, devices, incidents, pc, local>>

ComputeDashboardStats ==
    /\ stats.status = "pending"
    /\ stats' = compute_dashboard_stats(dash_events)
    /\ UNCHANGED <<dash_events, threshold, zone_rows>>
    /\ UNCHANGED <<event, clock, result, events, devices, incidents, pc, local>>

NextDash == BuildZoneRows \/ ComputeDashboardStats

SpecDash == InitDash /\ [][NextDash]_vars

(***************************************************************************)
(* Vocabulary of the properties of evaluate_event.                         *)
(***************************************************************************)
Evaluated == result.status # "pending"

Returned == result.status = "returned"

\* the four fields evaluate_event reads are text, null or missing
WellTyped(e) ==
    \A k \in {"event_type", "zone", "severity", "timestamp"} :
        e[k].t \in {"str", "null", "absent"}

\* the event's type / zone is this text, surrounding whitespace aside
TypeIs(e, name) == e.event_type.t = "str" /\ Strip(e.event_type.s) = name

ZoneIs(e, name) == e.zone.t = "str" /\ Strip(e.zone.s) = name

IsViolation == Returned /\ result.policy_result.is_violation

IncidentIs(incident_type) ==
    /\ result.incident.create_incident
    /\ result.incident.incident_type = PyStr(incident_type)

\* the default compliant verdict
IsCompliantDefault ==
    /\ Returned
    /\ result.policy_result.policy_id = None
    /\ result.policy_result.policy_name = None
    /\ ~result.policy_result.is_violation
    /\ result.policy_result.reason = "No policy violation detected"
    /\ result.compliance_mapping.iso27001_controls = <<>>
    /\ result.compliance_mapping.pcidss_requirements = <<>>
    /\ ~result.incident.create_incident
    /\ result.incident.incident_type = None

\* the timestamp was written from a clock time before 08:00:00
ClockBeforeStart == clock.ok /\ TimeLess(clock, Time(8, 0, 0, 0))

\* ... at or after 18:00:00
ClockAtOrAfterEnd == clock.ok /\ ~TimeLess(clock, Time(18, 0, 0, 0))

\* ... strictly after 18:00:00
ClockAfterEnd == clock.ok /\ TimeLess(Time(18, 0, 0, 0), clock)

(***************************************************************************)
(* C1                                                                      *)
(***************************************************************************)
\* C1 (as claimed): an RFID_ACCESS_GRANTED event whose timestamp parses to an
\* hour outside [8,18) is a violation with create_incident and incident type
\* UNAUTHORISED_PHYSICAL_ACCESS; inside the window it gets the default
\* compliant verdict.
C1_AccessGrantedAfterHoursViolation ==
    Evaluated /\ WellTyped(event) /\ TypeIs(event, "RFID_ACCESS_GRANTED") /\ clock.ok
        => IF clock.h < 8 \/ clock.h >= 18
           THEN IsViolation /\ IncidentIs("UNAUTHORISED_PHYSICAL_ACCESS")
           ELSE IsCompliantDefault

\* C1 (amended): every RFID_ACCESS_GRANTED event gets the default compliant
\* verdict, whatever its timestamp: no rule of evaluate_event reads that type.
C1_AccessGrantedAlwaysCompliant ==
    Evaluated /\ WellTyped(event) /\ TypeIs(event, "RFID_ACCESS_GRANTED")
        => IsCompliantDefault

\* C1 witness: an access-granted event stamped 22:30:00 has been evaluated
C1_Witness ==
    /\ Evaluated /\ WellTyped(event) /\ TypeIs(event, "RFID_ACCESS_GRANTED")
    /\ clock = Time(22, 30, 0, 0)
    /\ IsCompliantDefault

(***************************************************************************)
(* C2                                                                      *)
(***************************************************************************)
DeniedWithCountAtLeast3 ==
    /\ Evaluated /\ WellTyped(event) /\ TypeIs(event, "RFID_ACCESS_DENIED")
    /\ event.denied_attempts.t = "int" /\ event.denied_attempts.n >= 3

\* C2 (as claimed): an RFID_ACCESS_DENIED event with denied_attempts = n >= 3
\* is a violation whose reason contains the literal count n.
C2_DeniedReasonHasCount ==
    DeniedWithCountAtLeast3
        => /\ IsViolation
           /\ Contains(result.policy_result.reason,
                       StrOfPyInt(event.denied_attempts.n))

\* C2 (amended): an RFID_ACCESS_DENIED event with denied_attempts = n >= 3 is
\* a violation (incident UNAUTHORIZED_ACCESS_ATTEMPT) whose reason is the fixed
\* text "RFID access was denied (possible unauthorized attempt)", which does
\* not contain the count.
C2_DeniedViolationFixedReason ==
    DeniedWithCountAtLeast3
        => /\ IsViolation
           /\ IncidentIs("UNAUTHORIZED_ACCESS_ATTEMPT")
           /\ result.policy_result.reason =
                  "RFID access was denied (possible unauthorized attempt)"
           /\ ~Contains(result.policy_result.reason,
                        StrOfPyInt(event.denied_attempts.n))

\* C2 witness: a denied event with denied_attempts = 3 has been judged a violation
C2_Witness ==
    DeniedWithCountAtLeast3 /\ event.denied_attempts.n = 3 /\ IsViolation

(***************************************************************************)
(* C3                                                                      *)
(***************************************************************************)
ServerRoomTemperature ==
    /\ Evaluated /\ WellTyped(event) /\ TypeIs(event, "TEMP_THRESHOLD_EXCEEDED")
    /\ ZoneIs(event, "SERVER_ROOM")
    /\ event.temperature.t = "float"

\* C3 (as claimed): in SERVER_ROOM a temperature <= 30.0 is no violation and a
\* temperature > 30.0 is a violation with incident ENVIRONMENTAL_RISK and a
\* reason containing the measured value.
C3_TemperatureStrictThreshold ==
    ServerRoomTemperature
        => IF event.temperature.n > 30 * 10
           THEN /\ IsViolation
                /\ IncidentIs("ENVIRONMENTAL_RISK")
                /\ Contains(result.policy_result.reason,
                            StrOfPyFloat(event.temperature.n))
           ELSE Returned /\ ~result.policy_result.is_violation

\* C3 (amended): a TEMP_THRESHOLD_EXCEEDED event in SERVER_ROOM is a violation
\* with incident ENVIRONMENTAL_RISK whatever its temperature field (30.0 and
\* below included); the reason is the fixed text "Temperature exceeded
\* threshold in server room" and does not contain the measured value.
C3_TemperatureEventAlwaysViolation ==
    ServerRoomTemperature
        => /\ IsViolation
           /\ IncidentIs("ENVIRONMENTAL_RISK")
           /\ result.policy_result.reason =
                  "Temperature exceeded threshold in server room"
           /\ ~Contains(result.policy_result.reason,
                        StrOfPyFloat(event.temperature.n))

\* C3 witness: a server-room event with temperature exactly 30.0 is a violation
C3_Witness ==
    ServerRoomTemperature /\ event.temperature.n = 30 * 10 /\ IsViolation

(***************************************************************************)
(* C4                                                                      *)
(***************************************************************************)
MotionEvaluated == Evaluated /\ WellTyped(event) /\ TypeIs(event, "MOTION_DETECTED")

InSensitiveZone == ZoneIs(event, "CASH_VAULT") \/ ZoneIs(event, "SERVER_ROOM")

IsAfterHoursMotionVerdict ==
    /\ IsViolation
    /\ result.policy_result.policy_name = PyStr("After-hours motion in restricted zone")
    /\ IncidentIs("SUSPICIOUS_AFTER_HOURS_ACTIVITY")

\* C4 (as claimed): a MOTION_DETECTED event in CASH_VAULT or SERVER_ROOM is a
\* violation exactly when its timestamp parses to a clock time outside
\* [08:00, 18:00), end exclusive (18:00:00 is after-hours); in any other zone
\* it is never a violation.
C4_MotionWindowEndExclusive ==
    MotionEvaluated
        => IF InSensitiveZone /\ (ClockBeforeStart \/ ClockAtOrAfterEnd)
           THEN IsAfterHoursMotionVerdict
           ELSE Returned /\ ~result.policy_result.is_violation

\* C4 (amended): a MOTION_DETECTED event in CASH_VAULT or SERVER_ROOM is a
\* violation exactly when its timestamp parses to a clock time before 08:00:00
\* or strictly after 18:00:00 (07:59:59 and 18:00:01 are after-hours, 08:00:00,
\* 17:59:59 and 18:00:00 are not); in any other zone it is never a violation.
C4_MotionWindowEndInclusive ==
    MotionEvaluated
        => IF InSensitiveZone /\ (ClockBeforeStart \/ ClockAfterEnd)
           THEN IsAfterHoursMotionVerdict
           ELSE Returned /\ ~result.policy_result.is_violation

\* C4 witness: motion in the cash vault stamped 18:00:00 sharp was judged compliant
C4_Witness ==
    /\ MotionEvaluated /\ ZoneIs(event, "CASH_VAULT")
    /\ clock = Time(18, 0, 0, 0)
    /\ Returned /\ ~result.policy_result.is_violation

(***************************************************************************)
(* C5                                                                      *)
(***************************************************************************)
\* C5 (as claimed): evaluate_event returns a verdict for every event, fields
\* of the wrong type included, and never raises; an event whose timestamp is
\* absent or does not parse is never judged by the after-hours rule.
C5_EvaluateTotal ==
    Evaluated
        => /\ Returned
           /\ (~clock.ok => ~IsAfterHoursMotionVerdict)

(***************************************************************************)
(* C6                                                                      *)
(***************************************************************************)
RuleTypes ==
    {"RFID_ACCESS_DENIED", "MOTION_DETECTED", "TEMP_THRESHOLD_EXCEEDED",
     "CAMERA_TAMPER_DETECTED"}

UnrecognizedType(e) == \A name \in RuleTypes : ~TypeIs(e, name)

\* C6: an event whose event_type is none of the rule types (a missing, null
\* or empty event_type included) gets is_violation = false, empty
\* iso27001_controls and pcidss_requirements and create_incident = false,
\* whatever its zone, timestamp and severity.
C6_UnrecognizedTypeCompliant ==
    Evaluated /\ WellTyped(event) /\ UnrecognizedType(event)
        => /\ Returned
           /\ ~result.policy_result.is_violation
           /\ result.compliance_mapping.iso27001_controls = <<>>
           /\ result.compliance_mapping.pcidss_requirements = <<>>
           /\ ~result.incident.create_incident

\* C6 witness: an unknown event type in the server room late in the evening
C6_Witness ==
    /\ Evaluated /\ WellTyped(event) /\ TypeIs(event, "DOOR_FORCED")
    /\ ZoneIs(event, "SERVER_ROOM")
    /\ clock = Time(22, 30, 0, 0)
    /\ Returned /\ ~result.policy_result.is_violation

(***************************************************************************)
(* C7                                                                      *)
(***************************************************************************)
\* C7: every verdict evaluate_event returns with is_violation = false has both
\* compliance-mapping sequences empty and create_incident = false.
C7_CompliantHasNoCitations ==
    Returned /\ ~result.policy_result.is_violation
        => /\ result.compliance_mapping.iso27001_controls = <<>>
           /\ result.compliance_mapping.pcidss_requirements = <<>>
           /\ ~result.incident.create_incident

\* C7 witness: after-hours motion in the lobby came back compliant
C7_Witness ==
    /\ MotionEvaluated /\ ZoneIs(event, "LOBBY") /\ ClockAfterEnd
    /\ Returned /\ ~result.policy_result.is_violation

(***************************************************************************)
(* C8                                                                      *)
(***************************************************************************)
\* C8: every CAMERA_TAMPER_DETECTED event is a violation with create_incident
\* and incident type SURVEILLANCE_TAMPER, whatever its zone, timestamp and
\* severity; so is the one in CASH_VAULT.
C8_CameraTamperAlwaysViolation ==
    Evaluated /\ WellTyped(event) /\ TypeIs(event, "CAMERA_TAMPER_DETECTED")
        => IsViolation /\ IncidentIs("SURVEILLANCE_TAMPER")

\* C8 witness: a camera tamper in the lobby during business hours is a violation
C8_Witness ==
    /\ Evaluated /\ WellTyped(event) /\ TypeIs(event, "CAMERA_TAMPER_DETECTED")
    /\ ZoneIs(event, "LOBBY")
    /\ clock = Time(10, 15, 0, 0)
    /\ IsViolation

(***************************************************************************)
(* Vocabulary of the properties of the store.                              *)
(***************************************************************************)
\* the Incident rows of the event with rowid id
IncidentsOf(id) == {j \in 1..Len(incidents) : incidents[j].event_id_fk = id}

NoDuplicateIncidents ==
    \A k \in 1..Len(events) : Cardinality(IncidentsOf(events[k].id)) <= 1

\* every stored event that evaluate_event judges worth an incident has one
AllViolationsCovered ==
    \A k \in 1..Len(events) :
        WantsIncident(evaluate_event(RowDict(events[k])))
            => IncidentsOf(events[k].id) # {}

\* th is inside a call of sync_incidents_from_events
InSync(th) == pc[th] \in {"sync_first", "sync_all", "sync_loop"}

(***************************************************************************)
(* C9                                                                      *)
(***************************************************************************)
\* C9: with the handlers run one at a time, no stored event ever has more
\* than one Incident row, and every step of a sync_incidents_from_events call
\* made when each violating event already has its incident leaves the
\* incidents table as it is, the call returning 0.
C9_IncidentCreationIdempotent ==
    /\ []NoDuplicateIncidents
    /\ [][\A th \in Threads :
            InSync(th) /\ AllViolationsCovered
                => /\ incidents' = incidents
                   /\ (pc'[th] = "sync_ret" => local'[th].created = 0)]_vars

\* C9 witness: a request's sync call over two stored events, both with their
\* incident, has returned 0
C9_Witness ==
    /\ pc["web"] = "sync_ret"
    /\ local["web"].created = 0
    /\ Len(events) >= 2
    /\ Len(incidents) = Len(events)
    /\ NoDuplicateIncidents

(***************************************************************************)
(* C10                                                                     *)
(***************************************************************************)
\* C10 (as claimed): with the MQTT thread's insert + sync interleaved with a
\* request's sync at any point, no stored event has more than one Incident row.
C10_NoDuplicateIncidentsConcurrently == NoDuplicateIncidents

(***************************************************************************)
(* C11                                                                     *)
(***************************************************************************)
\* no two stored events share an event_id
NoDuplicateEvents ==
    \A j, k \in 1..Len(events) :
        events[j].event_id = events[k].event_id => j = k

\* every stored event has a non-empty event_id
NoEventWithoutId == \A k \in 1..Len(events) : Truthy(events[k].event_id)

\* the message the MQTT thread handles repeats a stored event_id or has none
RepeatOrNoId ==
    \/ ~Truthy(Get(local["mqtt"].e, "event_id"))
    \/ EventExists(events, Get(local["mqtt"].e, "event_id"))

\* C11: whatever is delivered and however often, and whatever the seed file
\* holds, the events table never has two rows of one event_id nor a row
\* without event_id; and _insert_event_to_db called for a stored or missing
\* event_id returns False, leaving events, devices (last_seen included) and
\* incidents as they were.
C11_EventsDeduplicatedById ==
    /\ [](NoDuplicateEvents /\ NoEventWithoutId)
    /\ [][pc["mqtt"] = "insert_check" /\ pc'["mqtt"] # "insert_check" /\ RepeatOrNoId
            => /\ pc'["mqtt"] = "insert_ret"
               /\ events' = events
               /\ devices' = devices
               /\ incidents' = incidents]_vars

\* C11 witness: a second delivery of a stored event_id, with another
\* timestamp, has been answered False; the device's last_seen is still the
\* first delivery's
C11_Witness ==
    /\ pc["mqtt"] = "insert_ret"
    /\ EventExists(events, Get(local["mqtt"].e, "event_id"))
    /\ Len(events) = MaxEvents
    /\ NoDuplicateEvents
    /\ \E k \in 1..Len(devices) :
           /\ devices[k].device_id = device_key(local["mqtt"].e)
           /\ devices[k].last_seen # Get(local["mqtt"].e, "timestamp")

(***************************************************************************)
(* C12                                                                     *)
(***************************************************************************)
\* the stored event of row k has an incident exactly when its verdict asks for
\* one; its incidents are open and of the verdict's type; none if compliant
IncidentMatchesVerdict(k) ==
    LET proc == evaluate_event(RowDict(events[k]))
        mine == IncidentsOf(events[k].id)
    IN  /\ proc.status = "returned"
        /\ mine # {} <=> proc.incident.create_incident
        /\ ~proc.policy_result.is_violation => mine = {}
        /\ \A j \in mine :
               /\ incidents[j].status = "open"
               /\ PyStr(incidents[j].incident_type) = proc.incident.incident_type

IncidentsMatchVerdicts == \A k \in 1..Len(events) : IncidentMatchesVerdict(k)

\* C12: with the handlers run one at a time, whenever
\* sync_incidents_from_events has returned, each stored event has an incident
\* exactly when evaluate_event asks for one, open and of the verdict's type,
\* and compliant events have none; the call changes the incidents table only
\* by appending as many rows as the value it returns.
C12_SyncMatchesVerdicts ==
    /\ [](\A th \in Threads : pc[th] = "sync_ret" => IncidentsMatchVerdicts)
    /\ [][\A th \in Threads :
            InSync(th)
                => IF pc'[th] = "sync_ret"
                   THEN /\ Len(incidents') = Len(incidents) + local'[th].created
                        /\ SubSeq(incidents', 1, Len(incidents)) = incidents
                   ELSE incidents' = incidents]_vars

\* C12 witness: the sync call after a camera tamper was stored next to a
\* granted access has returned 1, and there is one incident
C12_Witness ==
    /\ pc["mqtt"] = "sync_ret"
    /\ local["mqtt"].created = 1
    /\ Len(events) = 2
    /\ Len(incidents) = 1
    /\ \E k \in 1..Len(events) :
           ~evaluate_event(RowDict(events[k])).policy_result.is_violation
    /\ IncidentsMatchVerdicts

(***************************************************************************)
(* Vocabulary of the properties of the dashboard functions.                *)
(***************************************************************************)
ZonesBuilt == zone_rows.status = "returned"

\* the zone an event is counted under
ZoneKey(e) == IF e.zone = Absent THEN PyStr("UNKNOWN") ELSE e.zone

ZoneKeys == {ZoneKey(dash_events[k]) : k \in 1..Len(dash_events)}

\* the events of a zone and, among them, the camera tampers
EventsIn(zone) == {k \in 1..Len(dash_events) : ZoneKey(dash_events[k]) = zone}

TampersIn(zone) ==
    {k \in EventsIn(zone) :
        dash_events[k].event_type = PyStr("CAMERA_TAMPER_DETECTED")}

(***************************************************************************)
(* C13                                                                     *)
(***************************************************************************)
\* C13: when build_zone_rows returns, there is exactly one row per distinct
\* zone of the input, the rows are in ascending order of compliance_percent,
\* a row's status is NEEDS_ATTENTION exactly when its compliance_percent is
\* strictly below the threshold and WITHIN_THRESHOLD otherwise, and a zone
\* with 1 violation among 10 events has compliance_percent 90.0, which at the
\* default threshold is WITHIN_THRESHOLD.
C13_ZoneRowsSortedAndLabelled ==
    ZonesBuilt =>
        LET rows == zone_rows.rows
        IN  /\ {rows[k].zone : k \in 1..Len(rows)} = ZoneKeys
            /\ Len(rows) = Cardinality(ZoneKeys)
            /\ \A j, k \in 1..Len(rows) :
                   j < k => rows[j].compliance_percent <= rows[k].compliance_percent
            /\ \A k \in 1..Len(rows) :
                   /\ rows[k].status \in {"NEEDS_ATTENTION", "WITHIN_THRESHOLD"}
                   /\ rows[k].status = "NEEDS_ATTENTION"
                          <=> rows[k].compliance_percent < threshold
            /\ \A k \in 1..Len(rows) :
                   /\ Cardinality(EventsIn(rows[k].zone)) = 10
                   /\ Cardinality(TampersIn(rows[k].zone)) = 1
                   => /\ rows[k].compliance_percent = 900
                      /\ threshold = THRESHOLD => rows[k].status = "WITHIN_THRESHOLD"

\* C13 witness: at the default threshold, a zone with 1 violation among 10
\* events is WITHIN_THRESHOLD at 90.0, listed after a zone that appeared
\* later in the input and is below the threshold
C13_Witness ==
    /\ ZonesBuilt
    /\ threshold = THRESHOLD
    /\ Len(zone_rows.rows) = 2
    /\ ZoneKey(dash_events[1]) = PyStr("LOBBY")
    /\ Cardinality(EventsIn(PyStr("LOBBY"))) = 10
    /\ Cardinality(TampersIn(PyStr("LOBBY"))) = 1
    /\ zone_rows.rows[1].zone = PyStr("SERVER_ROOM")
    /\ zone_rows.rows[1].status = "NEEDS_ATTENTION"
    /\ zone_rows.rows[2].zone = PyStr("LOBBY")
    /\ zone_rows.rows[2].compliance_percent = 900
    /\ zone_rows.rows[2].status = "WITHIN_THRESHOLD"

StatsDone == stats.status # "pending"

StatsReturned == stats.status = "returned"

\* evaluate_event judges every event of the input a violation
AllViolations ==
    \A k \in 1..Len(dash_events) :
        evaluate_event(dash_events[k]).policy_result.is_violation

(***************************************************************************)
(* C14                                                                     *)
(***************************************************************************)
\* C14: compute_dashboard_stats never raises ZeroDivisionError; for an empty
\* list it returns compliance_percent 0.0 and violation_percent 0.0; when it
\* returns for one or more events that are all violations, compliance_percent
\* is 0.0 and violation_percent 100.0; and whenever it returns,
\* violations_count + compliant_count = total, the length of the list.
C14_PercentagesDefined ==
    StatsDone =>
        /\ stats.exc # "ZeroDivisionError"
        /\ dash_events = <<>>
              => /\ StatsReturned
                 /\ stats.compliance_percent = 0
                 /\ stats.violation_percent = 0
        /\ StatsReturned
              => /\ stats.total = Len(dash_events)
                 /\ stats.violations_count + stats.compliant_count = stats.total
        /\ StatsReturned /\ Len(dash_events) >= 1 /\ AllViolations
              => /\ stats.compliance_percent = 0
                 /\ stats.violation_percent = 1000

\* C14 witness: the statistics of three events, all violations, came back
\* as 0.0 and 100.0
C14_Witness ==
    /\ StatsReturned
    /\ Len(dash_events) = 3
    /\ AllViolations
    /\ stats.violations_count = 3
    /\ stats.compliance_percent = 0
    /\ stats.violation_percent = 1000

(***************************************************************************)
(* C15                                                                     *)
(***************************************************************************)
\* the events counted in the high and critical severity buckets
InHighBuckets == {k \in 1..Len(dash_events) : BucketOf(dash_events[k]) \in {"high", "critical"}}

\* the severity buckets take every event of the input, and so does
\* evaluate_event
BucketsAccept ==
    \A k \in 1..Len(dash_events) :
        /\ ~BucketRaises(dash_events[k])
        /\ evaluate_event(dash_events[k]).status = "returned"

Occurrences(s, e) == Cardinality({i \in 1..Len(s) : s[i] = e})

BucketOccurrences(e) == Cardinality({k \in InHighBuckets : dash_events[k] = e})

\* alerts holds the min(5, k) newest of the k events of the high and
\* critical buckets, newest first, timestamps compared as text
IsNewestFiveOfBuckets(alerts) ==
    /\ Len(alerts) = (IF Cardinality(InHighBuckets) < 5
                      THEN Cardinality(InHighBuckets) ELSE 5)
    /\ \A i \in 1..Len(alerts) :
           Occurrences(alerts, alerts[i]) <= BucketOccurrences(alerts[i])
    /\ \A i, j \in 1..Len(alerts) :
           i < j => ~StrLess(AlertKey(alerts[i]).s, AlertKey(alerts[j]).s)
    /\ \A k \in InHighBuckets :
           Occurrences(alerts, dash_events[k]) < BucketOccurrences(dash_events[k])
               => \A i \in 1..Len(alerts) :
                      ~StrLess(AlertKey(alerts[i]).s, AlertKey(dash_events[k]).s)

\* C15 (as claimed): for every list of events the severity buckets accept,
\* compute_dashboard_stats returns, and recent_alerts holds exactly the
\* min(5, k) events with the greatest timestamp strings among the k events
\* counted in the high and critical buckets, in descending timestamp order.
C15_RecentAlertsNewestFiveOfBuckets ==
    StatsDone /\ BucketsAccept
        => /\ StatsReturned
           /\ IsNewestFiveOfBuckets(stats.recent_alerts)

(***************************************************************************)
(* C16                                                                     *)
(***************************************************************************)
\* the message is a well-formed event: it has an event_id and no null where
\* the events table wants a value
WellFormed(e) == Truthy(Get(e, "event_id")) /\ ~NullColumn(e)

\* on_message has found the message's event_id not stored yet
PastInsertCheck ==
    pc["mqtt"] \in {"insert_write", "sync_first", "sync_all", "sync_loop", "sync_ret"}

\* in tables evs and incs the message's event is stored and, if it is a
\* violation, has an open incident
StoredWithIncident(evs, incs, e) ==
    LET rows == {k \in 1..Len(evs) : evs[k].event_id = Get(e, "event_id")}
    IN  /\ rows # {}
        /\ evaluate_event(e).policy_result.is_violation
              => \E k \in rows : \E j \in 1..Len(incs) :
                     /\ incs[j].event_id_fk = evs[k].id
                     /\ incs[j].status = "open"

\* C16 (as claimed): every on_message handler finishes; when the handler of a
\* well-formed message whose event_id was not stored finishes, the event is
\* stored and, if evaluate_event judges it a violation, has an open incident;
\* and the MQTT thread changes the events table only by appending the row of
\* such a message, so a duplicate, an invalid message or a failure leaves the
\* stored events as they were and the next message is handled the same way.
C16_StreamedEventStoredWithIncident ==
    /\ (pc["mqtt"] # "idle") ~> (pc["mqtt"] = "idle")
    /\ [][PastInsertCheck /\ WellFormed(local["mqtt"].e) /\ pc'["mqtt"] = "idle"
            => StoredWithIncident(events', incidents', local["mqtt"].e)]_vars
    /\ [][pc'["mqtt"] # pc["mqtt"] /\ events' # events
            => /\ pc["mqtt"] = "insert_write"
               /\ WellFormed(local["mqtt"].e)
               /\ events' = Append(events, EventRow(Len(events) + 1, local["mqtt"].e))]_vars

====
